---------------------------- MODULE Spec2Model ----------------------------
(*
  Turkish syllabification (python/durak/syllabification.py).

  A character is a string.  ASCII letters stand for themselves; a letter
  outside ASCII is written by its code point:
      "U+0130"  capital I with dot above      "U+0307"  combining dot above
      "U+0131"  dotless small i               "U+00E7"  c with cedilla  ...
  A Python str is a sequence of characters, a list of str a sequence of
  such sequences.
*)
EXTENDS Integers, Sequences, FiniteSets, TLC

(* ------------------------------------------------------------------ *)
(* Bounds of the checked instances                                     *)
(* ------------------------------------------------------------------ *)
\* longest word of the facade-level instance (mixed case)
MaxLen == 3
\* longest word of the scan-level instance (lower case)
MaxLowerLen == 6
\* longest separator
MaxSepLen == 2

(* ------------------------------------------------------------------ *)
(* Character tables                                                    *)
(* ------------------------------------------------------------------ *)
VOWELS ==
    {"a", "e", "U+0131", "i", "o", "U+00F6", "u", "U+00FC",
     "U+00E2", "U+00EE", "U+00FB"}

CONSONANTS ==
    {"b", "c", "U+00E7", "d", "f", "g", "U+011F", "h", "j", "k", "l", "m",
     "n", "p", "r", "s", "U+015F", "t", "v", "y", "z", "q", "w", "x"}

\* valid_onsets without its last entry
valid_onsets_short ==
    { <<"t", "r">>, <<"p", "r">>, <<"k", "r">>, <<"g", "r">>, <<"b", "r">>,
      <<"d", "r">>, <<"f", "r">>, <<"p", "l">>, <<"k", "l">>, <<"b", "l">>,
      <<"f", "l">> }

valid_onsets ==
    { <<"t", "r">>, <<"p", "r">>, <<"k", "r">>, <<"g", "r">>, <<"b", "r">>,
      <<"d", "r">>, <<"f", "r">>, <<"p", "l">>, <<"k", "l">>, <<"b", "l">>,
      <<"f", "l">>, <<"g", "l">> }

\* str.isupper() of one character, over the characters of the instances
IsUpper(ch) == ch \in {"A", "I", "T", "R", "U+0130"}

\* str.lower() of one character: a str, which for U+0130 has two code points
LowerChar(ch) ==
    CASE ch = "A" -> <<"a">>
      [] ch = "I" -> <<"i">>
      [] ch = "T" -> <<"t">>
      [] ch = "R" -> <<"r">>
      [] ch = "U+0130" -> <<"i", "U+0307">>
      [] OTHER -> <<ch>>

\* str.upper() of one character
UpperChar(ch) ==
    CASE ch = "a" -> "A"
      [] ch = "i" -> "I"
      [] ch = "U+0131" -> "I"
      [] ch = "t" -> "T"
      [] ch = "r" -> "R"
      [] OTHER -> ch

RECURSIVE Lower(_)
\* str.lower(): the lower-case mappings of the characters, concatenated
Lower(s) == IF s = <<>> THEN <<>> ELSE LowerChar(Head(s)) \o Lower(Tail(s))

RECURSIVE NFC(_)
\* unicodedata.normalize("NFC", .): a base letter followed by U+0307 is
\* composed when the pair has a precomposed form among the characters used
NFC(s) ==
    IF Len(s) < 2 THEN s
    ELSE IF s[1] = "I" /\ s[2] = "U+0307"
         THEN <<"U+0130">> \o NFC(SubSeq(s, 3, Len(s)))
         ELSE <<s[1]>> \o NFC(Tail(s))

Min(a, b) == IF a < b THEN a ELSE b

\* Python slice s[:n]
Take(s, n) == SubSeq(s, 1, Min(n, Len(s)))

(* ------------------------------------------------------------------ *)
(* Syllabifier._is_valid_onset, _find_break_point                      *)
(* ------------------------------------------------------------------ *)
IsValidOnset(cluster) == cluster \in valid_onsets

RECURSIVE ConsonantCountNonVowel(_)
\* ConsonantCount with every character that is not a vowel counted
ConsonantCountNonVowel(remaining) ==
    IF remaining = <<>> THEN 0
    ELSE IF Head(remaining) \notin VOWELS
         THEN 1 + ConsonantCountNonVowel(Tail(remaining))
         ELSE 0

RECURSIVE ConsonantCount(_)
\* the counting loop: leading run of characters that are consonants
ConsonantCount(remaining) ==
    IF remaining = <<>> THEN 0
    ELSE IF Head(remaining) \in CONSONANTS
         THEN 1 + ConsonantCount(Tail(remaining))
         ELSE 0

\* FindBreakPoint with a single consonant taken as coda
FindBreakPointCoda(current_syllable, remaining) ==
    IF remaining = <<>> THEN 0
    ELSE LET consonant_count == ConsonantCount(remaining)
         IN  IF consonant_count = 0 THEN 0
             ELSE IF consonant_count = 1 THEN 1
             ELSE IF consonant_count = 2
                  THEN IF IsValidOnset(Take(remaining, 2)) THEN 0 ELSE 1
             ELSE IF consonant_count >= 3 THEN 1
             ELSE 0

\* FindBreakPoint with one character taken when no consonant follows
FindBreakPointHiatus(current_syllable, remaining) ==
    IF remaining = <<>> THEN 0
    ELSE LET consonant_count == ConsonantCount(remaining)
         IN  IF consonant_count = 0 THEN 1
             ELSE IF consonant_count = 1 THEN 0
             ELSE IF consonant_count = 2
                  THEN IF IsValidOnset(Take(remaining, 2)) THEN 0 ELSE 1
             ELSE IF consonant_count >= 3 THEN 1
             ELSE 0

\* FindBreakPoint with two consonants of a long run taken as coda
FindBreakPointTwo(current_syllable, remaining) ==
    IF remaining = <<>> THEN 0
    ELSE LET consonant_count == ConsonantCount(remaining)
         IN  IF consonant_count = 0 THEN 0
             ELSE IF consonant_count = 1 THEN 0
             ELSE IF consonant_count = 2
                  THEN IF IsValidOnset(Take(remaining, 2)) THEN 0 ELSE 1
             ELSE IF consonant_count >= 3 THEN 2
             ELSE 0

FindBreakPoint(current_syllable, remaining) ==
    IF remaining = <<>> THEN 0
    ELSE LET consonant_count == ConsonantCount(remaining)
         IN  IF consonant_count = 0 THEN 0
             ELSE IF consonant_count = 1 THEN 0
             ELSE IF consonant_count = 2
                  THEN IF IsValidOnset(Take(remaining, 2)) THEN 0 ELSE 1
             ELSE IF consonant_count >= 3 THEN 1
             ELSE 0

(* ------------------------------------------------------------------ *)
(* Syllabifier._segment                                                *)
(* ------------------------------------------------------------------ *)
\* the locals of _segment before the loop
SegmentStart == [i |-> 0, current |-> <<>>, syllables |-> <<>>, break_point |-> -1]

\* SegmentIter with "i += 1" made only after a vowel
SegmentIterStall(w, st) ==
    LET char == w[st.i + 1]
        current == Append(st.current, char)
    IN  IF char \in VOWELS
        THEN [i |-> st.i + 1, current |-> <<>>,
              syllables |-> Append(st.syllables, current), break_point |-> -1]
        ELSE [i |-> st.i, current |-> current,
              syllables |-> st.syllables, break_point |-> -1]

\* SegmentIter without the "i += break_point" of a break
SegmentIterNoSkip(w, st) ==
    LET char == w[st.i + 1]
        current == Append(st.current, char)
    IN  IF char \in VOWELS
        THEN IF st.i + 1 < Len(w)
             THEN LET next_chars == SubSeq(w, st.i + 2, Len(w))
                      break_point == FindBreakPoint(current, next_chars)
                  IN  IF break_point >= 0
                      THEN [i |-> st.i + 1, current |-> <<>>,
                            syllables |-> Append(st.syllables,
                                            current \o Take(next_chars, break_point)),
                            break_point |-> break_point]
                      ELSE [i |-> st.i + 1, current |-> current,
                            syllables |-> st.syllables,
                            break_point |-> break_point]
             ELSE [i |-> st.i + 1, current |-> <<>>,
                   syllables |-> Append(st.syllables, current),
                   break_point |-> -1]
        ELSE [i |-> st.i + 1, current |-> current,
              syllables |-> st.syllables, break_point |-> -1]

\* one iteration of the while loop; st.i is the 0-based index of the code
SegmentIter(w, st) ==
    LET char == w[st.i + 1]
        current == Append(st.current, char)
    IN  IF char \in VOWELS
        THEN IF st.i + 1 < Len(w)
             THEN LET next_chars == SubSeq(w, st.i + 2, Len(w))
                      break_point == FindBreakPoint(current, next_chars)
                  IN  IF break_point = 0
                      THEN [i |-> st.i + 1, current |-> <<>>,
                            syllables |-> Append(st.syllables, current),
                            break_point |-> break_point]
                      ELSE IF break_point > 0
                      THEN [i |-> st.i + break_point + 1, current |-> <<>>,
                            syllables |-> Append(st.syllables,
                                            current \o Take(next_chars, break_point)),
                            break_point |-> break_point]
                      ELSE [i |-> st.i + 1, current |-> current,
                            syllables |-> st.syllables,
                            break_point |-> break_point]
             ELSE [i |-> st.i + 1, current |-> <<>>,
                   syllables |-> Append(st.syllables, current),
                   break_point |-> -1]
        ELSE [i |-> st.i + 1, current |-> current,
              syllables |-> st.syllables, break_point |-> -1]

\* SegmentEnd with the leftover always appended as a syllable of its own
SegmentEndAppend(st) ==
    IF st.current # <<>> THEN Append(st.syllables, st.current) ELSE st.syllables

\* after the loop: the leftover joins the last syllable, or is the only one
SegmentEnd(st) ==
    IF st.current # <<>>
    THEN IF st.syllables # <<>>
         THEN [st.syllables EXCEPT ![Len(st.syllables)] = @ \o st.current]
         ELSE Append(st.syllables, st.current)
    ELSE st.syllables

RECURSIVE SegmentLoop(_, _)
SegmentLoop(w, st) ==
    IF st.i < Len(w) THEN SegmentLoop(w, SegmentIter(w, st)) ELSE st

Segment(w) == SegmentEnd(SegmentLoop(w, SegmentStart))

(* ------------------------------------------------------------------ *)
(* Syllabifier._restore_case                                           *)
(* ------------------------------------------------------------------ *)
RECURSIVE RestoreSyllable(_, _, _)
\* the inner loop: <<restored, char_index>> for one syllable
RestoreSyllable(syllable, original, char_index) ==
    IF syllable = <<>> THEN <<(<<>>), char_index>>
    ELSE LET char == Head(syllable)
             here == IF char_index < Len(original)
                     THEN IF IsUpper(original[char_index + 1])
                          THEN UpperChar(char) ELSE char
                     ELSE char
             next == IF char_index < Len(original)
                     THEN char_index + 1 ELSE char_index
             rest == RestoreSyllable(Tail(syllable), original, next)
         IN  <<(<<here>> \o rest[1]), rest[2]>>

RECURSIVE RestoreFrom(_, _, _)
RestoreFrom(syllables, original, char_index) ==
    IF syllables = <<>> THEN <<>>
    ELSE LET r == RestoreSyllable(Head(syllables), original, char_index)
         IN  <<r[1]>> \o RestoreFrom(Tail(syllables), original, r[2])

RestoreCase(syllables, original) == RestoreFrom(syllables, original, 0)

(* ------------------------------------------------------------------ *)
(* Syllabifier.syllabify, count, analyze                               *)
(* ------------------------------------------------------------------ *)
\* the separator argument: None, or a str
None == [some |-> FALSE, s |-> <<>>]
Some(s) == [some |-> TRUE, s |-> s]

\* a return value of syllabify: a list of str or a str
ListValue(l) == [kind |-> "list", list |-> l, str |-> <<>>]
StrValue(s) == [kind |-> "str", list |-> <<>>, str |-> s]

RECURSIVE JoinTrailing(_, _)
\* Join with the separator after every syllable, the last included
JoinTrailing(syllables, sep) ==
    IF syllables = <<>> THEN <<>>
    ELSE Head(syllables) \o sep \o JoinTrailing(Tail(syllables), sep)

RECURSIVE Join(_, _)
\* separator.join(syllables)
Join(syllables, sep) ==
    IF syllables = <<>> THEN <<>>
    ELSE IF Len(syllables) = 1 THEN Head(syllables)
    ELSE Head(syllables) \o sep \o Join(Tail(syllables), sep)

Syllabify(w, separator) ==
    IF w = <<>>
    THEN IF separator.some /\ separator.s # <<>> THEN StrValue(<<>>) ELSE ListValue(<<>>)
    ELSE LET original_word == NFC(w)
             word_lower == Lower(original_word)
             syllables == RestoreCase(Segment(word_lower), original_word)
         IN  IF separator.some THEN StrValue(Join(syllables, separator.s))
             ELSE ListValue(syllables)

\* Count with the isinstance test the wrong way round
CountWrongType(w) ==
    LET syllables == Syllabify(w, None)
    IN  IF syllables.kind = "str" THEN Len(syllables.list) ELSE 0

Count(w) ==
    LET syllables == Syllabify(w, None)
    IN  IF syllables.kind = "list" THEN Len(syllables.list) ELSE 0

\* first index >= k at which sep occurs in s, 0 when there is none
FindFrom(s, sep, k) ==
    LET hits == {j \in k..(Len(s) - Len(sep) + 1) : SubSeq(s, j, j + Len(sep) - 1) = sep}
    IN  IF hits = {} THEN 0 ELSE CHOOSE j \in hits : \A h \in hits : j <= h

RECURSIVE Split(_, _)
\* str.split(sep) with a non-empty sep
Split(s, sep) ==
    LET j == FindFrom(s, sep, 1)
    IN  IF j = 0 THEN <<s>>
        ELSE <<SubSeq(s, 1, j - 1)>> \o Split(SubSeq(s, j + Len(sep), Len(s)), sep)

RECURSIVE ShapeNoSkip(_)
\* Shape with every character that is not a vowel coded C
ShapeNoSkip(syl) ==
    IF syl = <<>> THEN <<>>
    ELSE (IF Head(syl) \in VOWELS THEN <<"V">> ELSE <<"C">>)
         \o ShapeNoSkip(Tail(syl))

RECURSIVE Shape(_)
\* the shape code of one (lower-cased) syllable
Shape(syl) ==
    IF syl = <<>> THEN <<>>
    ELSE (IF Head(syl) \in VOWELS THEN <<"V">>
          ELSE IF Head(syl) \in CONSONANTS THEN <<"C">>
          ELSE <<>>) \o Shape(Tail(syl))

Analyze(w) ==
    LET r == Syllabify(w, None)
        syllables == IF r.kind = "str" THEN Split(r.str, <<"-">>) ELSE r.list
        structure == [k \in 1..Len(syllables) |-> Shape(Lower(syllables[k]))]
    IN  [word |-> w, syllables |-> syllables, count |-> Len(syllables),
         structure |-> structure]

(* ------------------------------------------------------------------ *)
(* Inputs                                                              *)
(* ------------------------------------------------------------------ *)
WordsOver(A, n) == UNION {[1..k -> A] : k \in 0..n}

\* lower-case letters and a neutral character
LowerAlphabet == {"a", "i", "t", "r", "'"}
\* letters of both cases, among them the dotted capital I, and a neutral
CasedAlphabet == {"a", "i", "t", "'", "A", "I", "T", "U+0130"}

CasedWords == WordsOver(CasedAlphabet, MaxLen)
LowerWords == WordsOver(LowerAlphabet, MaxLowerLen)
\* vowel, two consonants, vowel: every pair of consonants of the table
ClusterWords == {<<"a", c1, c2, "e">> : c1 \in CONSONANTS, c2 \in CONSONANTS}

\* the words of the thread-level instances: a vowel, a consonant, a neutral
\* character, a capital and the dotted capital I
ThreadAlphabet == {"a", "t", "'", "A", "U+0130"}
ThreadWords == WordsOver(ThreadAlphabet, MaxLen)

SepAlphabet == {"-", "a"}
Separators == WordsOver(SepAlphabet, MaxSepLen)

(* ------------------------------------------------------------------ *)
(* State                                                               *)
(* ------------------------------------------------------------------ *)
VARIABLES
    word,         \* the word the calls are made with
    separator,    \* the separator of the last call of syllabify(word, sep)
    returned,     \* the calls that have returned
    retList,      \* the value returned by syllabify(word)
    retSep,       \* the value returned by syllabify(word, separator)
    retCount,     \* the value returned by count(word)
    retInfo,      \* the value returned by analyze(word)
    pc,           \* position of a call of syllabify(word) run step by step
    original_word, word_lower,         \* locals of syllabify
    i, current, syllables, break_point, \* locals of _segment
    op,           \* the call the thread is in, when run step by step
    iters,        \* iterations of the loop of _segment made by that call
    vowels, consonants,  \* self.vowels, self.consonants of the shared instance
    otherRet      \* the last value returned to another thread

vars == <<word, separator, returned, retList, retSep, retCount, retInfo,
          pc, original_word, word_lower, i, current, syllables, break_point,
          op, iters, vowels, consonants, otherRet>>

rets == <<separator, returned, retList, retSep, retCount, retInfo>>
scan == <<pc, original_word, word_lower, i, current, syllables, break_point>>
inst == <<vowels, consonants>>

NoInfo == [word |-> <<>>, syllables |-> <<>>, count |-> 0, structure |-> <<>>]
NoOther == [op |-> "none", word |-> <<>>, syllables |-> <<>>, count |-> 0]

Fresh ==
    /\ separator = None
    /\ returned = {}
    /\ retList = ListValue(<<>>)
    /\ retSep = ListValue(<<>>)
    /\ retCount = 0
    /\ retInfo = NoInfo
    /\ pc = "idle"
    /\ original_word = <<>>
    /\ word_lower = <<>>
    /\ i = 0
    /\ current = <<>>
    /\ syllables = <<>>
    /\ break_point = -1
    /\ op = "none"
    /\ iters = 0
    /\ vowels = VOWELS
    /\ consonants = CONSONANTS
    /\ otherRet = NoOther

Init == word \in CasedWords /\ Fresh

InitScan == word \in (LowerWords \cup ClusterWords \cup CasedWords) /\ Fresh

(* ------------------------------------------------------------------ *)
(* Calls of the facade, each in one step                               *)
(* ------------------------------------------------------------------ *)
CallSyllabify ==
    /\ "list" \notin returned
    /\ retList' = Syllabify(word, None)
    /\ returned' = returned \cup {"list"}
    /\ UNCHANGED <<word, inst, otherRet, op, iters, separator, retSep, retCount, retInfo, scan>>

CallSyllabifySep ==
    /\ "sep" \notin returned
    /\ \E sep \in Separators :
          /\ separator' = Some(sep)
          /\ retSep' = Syllabify(word, Some(sep))
    /\ returned' = returned \cup {"sep"}
    /\ UNCHANGED <<word, inst, otherRet, op, iters, retList, retCount, retInfo, scan>>

CallCount ==
    /\ "count" \notin returned
    /\ retCount' = Count(word)
    /\ returned' = returned \cup {"count"}
    /\ UNCHANGED <<word, inst, otherRet, op, iters, separator, retList, retSep, retInfo, scan>>

CallAnalyze ==
    /\ "analyze" \notin returned
    /\ retInfo' = Analyze(word)
    /\ returned' = returned \cup {"analyze"}
    /\ UNCHANGED <<word, inst, otherRet, op, iters, separator, retList, retSep, retCount, scan>>

Next == CallSyllabify \/ CallSyllabifySep \/ CallCount \/ CallAnalyze

Spec == Init /\ [][Next]_vars

(* ------------------------------------------------------------------ *)
(* One call of syllabify(word), step by step                           *)
(* ------------------------------------------------------------------ *)
\* entry: the empty word returns at once; otherwise normalise, lower-case
\* and enter _segment
ScanCall ==
    /\ pc = "idle"
    /\ "list" \notin returned
    /\ op' = "list"
    /\ iters' = 0
    /\ IF word = <<>>
       THEN /\ retList' = ListValue(<<>>)
            /\ returned' = returned \cup {"list"}
            /\ pc' = "done"
            /\ UNCHANGED <<original_word, word_lower, i, current, syllables, break_point>>
       ELSE /\ original_word' = NFC(word)
            /\ word_lower' = Lower(NFC(word))
            /\ i' = SegmentStart.i
            /\ current' = SegmentStart.current
            /\ syllables' = SegmentStart.syllables
            /\ break_point' = SegmentStart.break_point
            /\ pc' = "loop"
            /\ UNCHANGED <<retList, returned>>
    /\ UNCHANGED <<word, inst, otherRet, separator, retSep, retCount, retInfo>>

\* one iteration of the loop of _segment
ScanStep ==
    /\ pc = "loop"
    /\ i < Len(word_lower)
    /\ iters' = iters + 1
    /\ LET st == SegmentIter(word_lower,
                     [i |-> i, current |-> current, syllables |-> syllables,
                      break_point |-> break_point])
       IN  /\ i' = st.i
           /\ current' = st.current
           /\ syllables' = st.syllables
           /\ break_point' = st.break_point
    /\ UNCHANGED <<word, inst, otherRet, op, rets, pc, original_word, word_lower>>

\* loop exit: leftover, _restore_case, return
ScanReturn ==
    /\ pc = "loop"
    /\ ~(i < Len(word_lower))
    /\ syllables' = SegmentEnd([i |-> i, current |-> current,
                                syllables |-> syllables, break_point |-> break_point])
    /\ retList' = ListValue(RestoreCase(syllables', original_word))
    /\ returned' = returned \cup {"list"}
    /\ pc' = "done"
    /\ UNCHANGED <<word, inst, otherRet, op, iters, separator, retSep, retCount, retInfo,
                   original_word, word_lower, i, current, break_point>>

\* count(word), called by the same thread before or after syllabify(word)
ScanCount ==
    /\ pc \in {"idle", "done"}
    /\ CallCount

NextScan == ScanCall \/ ScanStep \/ ScanReturn \/ ScanCount

SpecScan == InitScan /\ [][NextScan]_vars

(* ------------------------------------------------------------------ *)
(* One thread making syllabify(word), count(word), analyze(word), each *)
(* run step by step                                                    *)
(* ------------------------------------------------------------------ *)
Ops == {"list", "count", "analyze"}

\* SyllableInfo built by analyze from the final syllables
InfoOf(w, final) ==
    [word |-> w, syllables |-> final, count |-> Len(final),
     structure |-> [k \in 1..Len(final) |-> Shape(Lower(final[k]))]]

\* the value a call hands back for the final syllables
Deliver(o, final) ==
    /\ returned' = returned \cup {o}
    /\ retList' = IF o = "list" THEN ListValue(final) ELSE retList
    /\ retCount' = IF o = "count" THEN Len(final) ELSE retCount
    /\ retInfo' = IF o = "analyze" THEN InfoOf(word, final) ELSE retInfo

\* entry of a call: count and analyze call syllabify(word); the empty word
\* returns at once, any other is normalised, lower-cased and scanned
ThreadCall ==
    /\ pc \in {"idle", "done"}
    /\ \E o \in Ops \ returned :
          /\ op' = o
          /\ iters' = 0
          /\ IF word = <<>>
             THEN /\ Deliver(o, <<>>)
                  /\ pc' = "done"
                  /\ UNCHANGED <<original_word, word_lower, i, current,
                                 syllables, break_point>>
             ELSE /\ original_word' = NFC(word)
                  /\ word_lower' = Lower(NFC(word))
                  /\ i' = SegmentStart.i
                  /\ current' = SegmentStart.current
                  /\ syllables' = SegmentStart.syllables
                  /\ break_point' = SegmentStart.break_point
                  /\ pc' = "loop"
                  /\ UNCHANGED <<returned, retList, retCount, retInfo>>
    /\ UNCHANGED <<word, inst, otherRet, separator, retSep>>

\* loop exit of the call in progress: leftover, _restore_case, return
ThreadReturn ==
    /\ pc = "loop"
    /\ ~(i < Len(word_lower))
    /\ \E segmented \in {SegmentEnd([i |-> i, current |-> current,
                                     syllables |-> syllables,
                                     break_point |-> break_point])} :
          /\ syllables' = segmented
          /\ \E final \in {RestoreCase(segmented, original_word)} :
                Deliver(op, final)
    /\ pc' = "done"
    /\ UNCHANGED <<word, inst, otherRet, op, iters, separator, retSep,
                   original_word, word_lower, i, current, break_point>>

InitTerm == word \in ThreadWords /\ Fresh

NextTerm == ThreadCall \/ ScanStep \/ ThreadReturn

\* the code is synchronous: a call that can take a step takes it
SpecTerm == InitTerm /\ [][NextTerm]_vars /\ WF_vars(NextTerm)

(* ------------------------------------------------------------------ *)
(* The same thread, with another thread calling the shared instance    *)
(* ------------------------------------------------------------------ *)
OtherWords == {<<"t", "a">>, <<"U+0130">>}

\* OtherCall with the accumulator of _segment kept on the instance
OtherCallSharedBuffer ==
    \E w \in OtherWords, o \in Ops :
        /\ otherRet' = [op |-> o, word |-> w,
                        syllables |-> Syllabify(w, None).list,
                        count |-> Count(w)]
        /\ otherRet' # otherRet
        /\ current' = <<>>
        /\ UNCHANGED <<word, inst, rets, op, iters, pc, original_word,
                       word_lower, i, syllables, break_point>>

\* a whole call of syllabify, count or analyze by another thread, with its
\* own word and its own locals, at any point of the first thread's call
OtherCall ==
    \E w \in OtherWords, o \in Ops :
        /\ otherRet' = [op |-> o, word |-> w,
                        syllables |-> IF o = "analyze" THEN Analyze(w).syllables
                                      ELSE Syllabify(w, None).list,
                        count |-> IF o = "analyze" THEN Analyze(w).count
                                  ELSE Count(w)]
        /\ otherRet' # otherRet
        /\ UNCHANGED <<word, inst, rets, scan, op, iters>>

InitShared == word \in ThreadWords /\ Fresh

NextShared == ThreadCall \/ ScanStep \/ ThreadReturn \/ OtherCall

SpecShared == InitShared /\ [][NextShared]_vars

(* ------------------------------------------------------------------ *)
(* Notions the properties are stated with                              *)
(* ------------------------------------------------------------------ *)
RECURSIVE Flatten(_)
\* the concatenation of a list of syllables
Flatten(l) == IF l = <<>> THEN <<>> ELSE Head(l) \o Flatten(Tail(l))

\* the lengths of the syllables of a list
Lengths(l) == [k \in 1..Len(l) |-> Len(l[k])]

RECURSIVE PrefixLen(_, _)
\* the number of characters in the first k syllables
PrefixLen(l, k) == IF k = 0 THEN 0 ELSE PrefixLen(l, k - 1) + Len(l[k])

\* the positions after which a syllable boundary falls inside the word
Boundaries(l) == {PrefixLen(l, k) : k \in 1..(Len(l) - 1)}

Chars(s) == {s[k] : k \in 1..Len(s)}

\* sep occurs inside the string s
OccursIn(sep, s) ==
    \E j \in 1..(Len(s) - Len(sep) + 1) : SubSeq(s, j, j + Len(sep) - 1) = sep

\* the lower-case letter of a character, one for one (U+0130 spelt i)
LowerLetter(ch) == IF ch = "U+0130" THEN "i" ELSE LowerChar(ch)[1]
LowerSpelling(w) == [k \in 1..Len(w) |-> LowerLetter(w[k])]

(* ------------------------------------------------------------------ *)
(* C1..C5: the facade                                                  *)
(* ------------------------------------------------------------------ *)
\* C1: length-preservation: the list returned by syllabify(W) concatenates,
\* code point for code point and in order, to exactly W.
C1_LengthPreservation ==
    "list" \in returned =>
        /\ retList.kind = "list"
        /\ Flatten(retList.list) = word

\* C2: case preservation keeps the boundaries of the lower-case pass: for a
\* word with upper-case letters the result has the syllable lengths of the
\* segmentation of the word's lower-case spelling, and every output
\* character is the word's own character at that position.
C2_CasePreservation ==
    ("list" \in returned /\ \E k \in 1..Len(word) : IsUpper(word[k])) =>
        /\ Lengths(retList.list) = Lengths(Segment(LowerSpelling(word)))
        /\ Flatten(retList.list) = word

\* C3: whenever a separator is supplied, the empty string included,
\* syllabify(W, sep) returns a string, the syllables of syllabify(W) joined
\* by sep; for the empty word it is the empty string for every sep, and
\* syllabify("") without a separator is the empty list.
C3_SeparatorGivesString ==
    /\ "sep" \in returned =>
          /\ retSep.kind = "str"
          /\ word = <<>> => retSep.str = <<>>
          /\ "list" \in returned => retSep.str = Join(retList.list, separator.s)
    /\ ("list" \in returned /\ word = <<>>) => retList = ListValue(<<>>)

\* C4 as stated: for every word, the empty word included, and every
\* non-empty separator that does not occur inside any syllable of
\* syllabify(W), splitting syllabify(W, sep) on sep yields syllabify(W).
C4_RoundTripAsStated ==
    ( /\ {"list", "sep"} \subseteq returned
      /\ separator.s # <<>>
      /\ \A k \in 1..Len(retList.list) : ~OccursIn(separator.s, retList.list[k]) )
    => /\ retSep.kind = "str"
       /\ Split(retSep.str, separator.s) = retList.list

\* C4 with only the empty word left out: a separator that is in no syllable
\* can still match across a syllable boundary (not a property of the code)
C4_RoundTripNonEmpty ==
    ( /\ {"list", "sep"} \subseteq returned
      /\ word # <<>>
      /\ separator.s # <<>>
      /\ \A k \in 1..Len(retList.list) : ~OccursIn(separator.s, retList.list[k]) )
    => /\ retSep.kind = "str"
       /\ Split(retSep.str, separator.s) = retList.list

\* C4, amended: for every non-empty word and every non-empty separator none
\* of whose characters occurs in a syllable of syllabify(W), splitting
\* syllabify(W, sep) on sep yields exactly the list syllabify(W).
C4_RoundTrip ==
    ( /\ {"list", "sep"} \subseteq returned
      /\ word # <<>>
      /\ separator.s # <<>>
      /\ \A k \in 1..Len(retList.list) :
            Chars(separator.s) \cap Chars(retList.list[k]) = {} )
    => /\ retSep.kind = "str"
       /\ Split(retSep.str, separator.s) = retList.list

C4_Witness ==
    /\ {"list", "sep"} \subseteq returned
    /\ separator.s = <<"-", "-">>
    /\ retList.list = << <<"a">>, <<"t", "a">> >>
    /\ retSep.str = <<"a", "-", "-", "t", "a">>

\* C5: count(W) equals len(syllabify(W)); analyze(W) holds the syllables of
\* syllabify(W), the count of count(W), and one shape code per syllable.
C5_CountConsistency ==
    /\ {"list", "count"} \subseteq returned => retCount = Len(retList.list)
    /\ {"list", "analyze"} \subseteq returned => retInfo.syllables = retList.list
    /\ {"count", "analyze"} \subseteq returned =>
          /\ retInfo.count = retCount
          /\ Len(retInfo.structure) = retCount

C5_Witness ==
    /\ {"list", "count", "analyze"} \subseteq returned
    /\ retCount = 2
    /\ Len(retInfo.structure) = 2
    /\ \E k \in 1..Len(word) : IsUpper(word[k])

(* ------------------------------------------------------------------ *)
(* C6..C10: the boundary rules.  Positions are those of word_lower,    *)
(* the lower-case form that _segment scans; _restore_case keeps the    *)
(* length of every syllable.                                           *)
(* ------------------------------------------------------------------ *)
IsVowelAt(w, p) == p \in 1..Len(w) /\ w[p] \in VOWELS
IsConsonantAt(w, p) == p \in 1..Len(w) /\ w[p] \in CONSONANTS
IsNeutralAt(w, p) == p \in 1..Len(w) /\ w[p] \notin (VOWELS \cup CONSONANTS)

\* the twelve pairs the two-consonant rule names
NamedOnsets ==
    { <<"t", "r">>, <<"p", "r">>, <<"k", "r">>, <<"g", "r">>, <<"b", "r">>,
      <<"d", "r">>, <<"f", "r">>, <<"p", "l">>, <<"k", "l">>, <<"b", "l">>,
      <<"f", "l">>, <<"g", "l">> }

\* syllabify(word) has returned its list
Done == "list" \in returned /\ retList.kind = "list"

\* C6: a vowel followed by exactly three consonants and a vowel, the last
\* two consonants not a valid onset: the first two consonants close the
\* syllable and only the third starts the next one.
C6_ThreeConsonantRun ==
    Done =>
      \A p \in 1..Len(word_lower) :
        ( /\ IsVowelAt(word_lower, p)
          /\ IsConsonantAt(word_lower, p + 1)
          /\ IsConsonantAt(word_lower, p + 2)
          /\ IsConsonantAt(word_lower, p + 3)
          /\ IsVowelAt(word_lower, p + 4)
          /\ <<word_lower[p + 2], word_lower[p + 3]>> \notin NamedOnsets )
        => /\ p + 2 \in Boundaries(retList.list)
           /\ p \notin Boundaries(retList.list)
           /\ p + 1 \notin Boundaries(retList.list)

\* the word has letters only and at least one vowel
LettersWithVowel(w) ==
    /\ \A p \in 1..Len(w) : w[p] \in VOWELS \cup CONSONANTS
    /\ \E p \in 1..Len(w) : w[p] \in VOWELS

\* a lower-cased syllable of letters fits (C)(C)V(C)(C)
FitsTemplate(syl) ==
    \E v \in 1..Len(syl) :
        /\ syl[v] \in VOWELS
        /\ v - 1 <= 2
        /\ Len(syl) - v <= 2
        /\ \A k \in 1..Len(syl) : k # v => syl[k] \in CONSONANTS

\* C7 as stated: every syllable of a word of letters (its lower-case form
\* has vowels and consonants only) with a vowel fits the template, at most
\* two consonants before and after its vowel.
C7_TemplateAsStated ==
    (Done /\ LettersWithVowel(word_lower)) =>
        \A k \in 1..Len(retList.list) : FitsTemplate(Lower(retList.list[k]))

\* n consecutive consonants start at position p
ConsonantsAt(w, p, n) == \A k \in p..(p + n - 1) : IsConsonantAt(w, k)

\* no three consonants at either end of the word, no four in a row
ShortRuns(w) ==
    /\ ~ConsonantsAt(w, 1, 3)
    /\ ~ConsonantsAt(w, Len(w) - 2, 3)
    /\ \A p \in 1..Len(w) : ~ConsonantsAt(w, p, 4)

\* C7, amended: every syllable of a word of letters with a vowel that
\* neither begins nor ends with three consonants and has no four
\* consonants in a row fits the template.
C7_Template ==
    (Done /\ LettersWithVowel(word_lower) /\ ShortRuns(word_lower)) =>
        \A k \in 1..Len(retList.list) : FitsTemplate(Lower(retList.list[k]))

C7_Witness ==
    /\ Done
    /\ word = <<"a", "r", "t", "t", "i", "t">>
    /\ retList.list = << <<"a", "r">>, <<"t", "t", "i", "t">> >>

\* C8: a vowel, exactly two consonants, a vowel: a pair among the twelve
\* named ones starts the next syllable whole; of any other pair the first
\* consonant closes the syllable and the second starts the next.
C8_TwoConsonantRule ==
    Done =>
      \A p \in 1..Len(word_lower) :
        ( /\ IsVowelAt(word_lower, p)
          /\ IsConsonantAt(word_lower, p + 1)
          /\ IsConsonantAt(word_lower, p + 2)
          /\ IsVowelAt(word_lower, p + 3) )
        => IF <<word_lower[p + 1], word_lower[p + 2]>> \in NamedOnsets
           THEN /\ p \in Boundaries(retList.list)
                /\ p + 1 \notin Boundaries(retList.list)
                /\ p + 2 \notin Boundaries(retList.list)
           ELSE /\ p + 1 \in Boundaries(retList.list)
                /\ p \notin Boundaries(retList.list)
                /\ p + 2 \notin Boundaries(retList.list)

C8_Witness ==
    /\ Done
    /\ word = <<"a", "g", "l", "e">>
    /\ retList.list = << <<"a">>, <<"g", "l", "e">> >>

\* C9: a vowel directly followed by a vowel, or by one consonant and then
\* a vowel: the boundary falls right after the first vowel, so the single
\* consonant is the first character of the next syllable.
C9_HiatusAndOnset ==
    Done =>
      \A p \in 1..Len(word_lower) :
        /\ (IsVowelAt(word_lower, p) /\ IsVowelAt(word_lower, p + 1))
              => p \in Boundaries(retList.list)
        /\ (IsVowelAt(word_lower, p) /\ IsConsonantAt(word_lower, p + 1) /\ IsVowelAt(word_lower, p + 2))
              => /\ p \in Boundaries(retList.list)
                 /\ p + 1 \notin Boundaries(retList.list)

C9_Witness ==
    /\ Done
    /\ word = <<"t", "i", "a", "t", "a">>
    /\ retList.list = << <<"t", "i">>, <<"a">>, <<"t", "a">> >>

\* the length of the run of consonants that follows position v
RunAfter(w, v) ==
    CHOOSE n \in 0..(Len(w) - v) :
        /\ \A k \in 1..n : w[v + k] \in CONSONANTS
        /\ (v + n + 1 <= Len(w)) => w[v + n + 1] \notin CONSONANTS

\* C10: neutral characters are never counted in a consonant run: the
\* look-ahead run stops at the first neutral character as it does at a
\* vowel, a neutral character is never consumed as a coda, and a neutral
\* character that directly follows a vowel and precedes a later vowel is
\* the first character of the next syllable.
C10_NeutralCharacters ==
    /\ (pc = "loop" /\ break_point >= 0) =>
          LET v == i - break_point
              run == RunAfter(word_lower, v)
          IN  /\ IsVowelAt(word_lower, v)
              /\ break_point <= run
              /\ \A k \in (v + 1)..i : ~IsNeutralAt(word_lower, k)
              /\ run <= 1 => break_point = 0
              /\ run >= 3 => break_point = 1
              /\ run = 2 =>
                    break_point = IF <<word_lower[v + 1], word_lower[v + 2]>> \in NamedOnsets
                                  THEN 0 ELSE 1
    /\ Done =>
          \A p \in 1..Len(word_lower) :
            /\ IsNeutralAt(word_lower, p) => p \notin Boundaries(retList.list)
            /\ ( /\ IsVowelAt(word_lower, p)
                 /\ IsNeutralAt(word_lower, p + 1)
                 /\ \E q \in (p + 2)..Len(word_lower) : IsVowelAt(word_lower, q) )
               => p \in Boundaries(retList.list)

C10_Witness ==
    /\ Done
    /\ word = <<"A", "'", "a">>
    /\ retList.list = << <<"A">>, <<"'", "a">> >>

(* ------------------------------------------------------------------ *)
(* C11, C13, C15: the scan of _segment                                 *)
(* ------------------------------------------------------------------ *)
HasVowel(w) == \E p \in 1..Len(w) : w[p] \in VOWELS

\* C11: the leftover of the scan is appended to the last emitted syllable
\* and never forms a syllable of its own; only when no syllable was
\* emitted, which is when the non-empty word has no vowel, is it the single
\* syllable, then equal to the whole word; the empty word yields the empty
\* list.
C11_LeftoverRule ==
    [][ /\ (pc = "loop" /\ pc' = "done") =>
              /\ (syllables = <<>>) <=> ~HasVowel(word_lower)
              /\ Lengths(retList'.list) = Lengths(syllables')
              /\ IF current = <<>> THEN syllables' = syllables
                 ELSE IF syllables # <<>>
                 THEN /\ Len(syllables') = Len(syllables)
                      /\ syllables'[Len(syllables)] = syllables[Len(syllables)] \o current
                      /\ \A k \in 1..(Len(syllables) - 1) : syllables'[k] = syllables[k]
                 ELSE /\ syllables' = <<current>>
                      /\ current = word_lower
                      /\ retList'.list = <<word>>
        /\ (pc = "idle" /\ pc' = "done") =>
              /\ word = <<>>
              /\ retList' = ListValue(<<>>) ]_vars

C11_Witness ==
    /\ pc = "done"
    /\ word = <<"a", "r", "t">>
    /\ current = <<"t">>
    /\ retList.list = << <<"a", "r", "t">> >>

C15_ScanInvariant ==
    pc = "loop" =>
        /\ i <= Len(word_lower)
        /\ Flatten(syllables) \o current = SubSeq(word_lower, 1, i)
        /\ \A k \in 1..Len(syllables) : syllables[k] # <<>>

C15_Witness ==
    /\ pc = "loop"
    /\ word = <<"a", "r", "t", "a">>
    /\ break_point = 1
    /\ i = 2
    /\ syllables = << <<"a", "r">> >>
    /\ current = <<>>

(* ------------------------------------------------------------------ *)
(* C12: the shape codes of analyze                                     *)
(* ------------------------------------------------------------------ *)
IsLetter(ch) == ch \in VOWELS \cup CONSONANTS

\* the letters of a lower-cased syllable, in order, as V and C
LettersAsCode(syl) ==
    LET letters == SelectSeq(Lower(syl), IsLetter)
    IN  [j \in 1..Len(letters) |-> IF letters[j] \in VOWELS THEN "V" ELSE "C"]

\* C12: structure[k] maps, in order, each vowel of the lower-cased syllable
\* k to V and each consonant to C and skips every neutral character; each
\* shape code is over {V, C} and never longer than its syllable.
C12_ShapeCodes ==
    "analyze" \in returned =>
        /\ Len(retInfo.structure) = Len(retInfo.syllables)
        /\ \A k \in 1..Len(retInfo.syllables) :
              /\ retInfo.structure[k] = LettersAsCode(retInfo.syllables[k])
              /\ Chars(retInfo.structure[k]) \subseteq {"V", "C"}
              /\ Len(retInfo.structure[k]) <= Len(retInfo.syllables[k])

C12_Witness ==
    /\ "analyze" \in returned
    /\ word = <<"A", "'", "t">>
    /\ retInfo.syllables = << <<"A", "'", "t">> >>
    /\ retInfo.structure = << <<"V", "C">> >>

(* ------------------------------------------------------------------ *)
(* C14: one nucleus per syllable                                       *)
(* ------------------------------------------------------------------ *)
VowelCount(s) == Cardinality({p \in 1..Len(s) : s[p] \in VOWELS})

\* C14: for a word whose lower-case form has a vowel, every syllable
\* returned has exactly one vowel, so count(W) is the number of vowels of
\* the lower-case word; the look-ahead characters a break skips are all
\* consonants, so the scan skips no vowel.
C14_OneNucleus ==
    /\ (Done /\ HasVowel(Lower(NFC(word)))) =>
          \A k \in 1..Len(retList.list) : VowelCount(Lower(retList.list[k])) = 1
    /\ ("count" \in returned /\ HasVowel(Lower(NFC(word)))) =>
          retCount = VowelCount(Lower(NFC(word)))
    /\ (pc = "loop" /\ break_point > 0) =>
          \A k \in (i - break_point + 1)..i : IsConsonantAt(word_lower, k)

C14_Witness ==
    /\ Done
    /\ "count" \in returned
    /\ word = <<"a", "r", "t", "a", "i">>
    /\ retCount = 3
    /\ retList.list = << <<"a", "r">>, <<"t", "a">>, <<"i">> >>

(* ------------------------------------------------------------------ *)
(* C16: termination                                                    *)
(* ------------------------------------------------------------------ *)
\* C16: for every input (letters, neutral characters, no vowel, empty) the
\* scan position i strictly increases on every iteration, _segment ends
\* after at most len(word) iterations, and syllabify, count and analyze
\* all return a result.
C16_Termination ==
    /\ [][(pc = "loop" /\ pc' = "loop") => (i' > i /\ iters' = iters + 1)]_vars
    /\ [](iters <= Len(word_lower) /\ pc \in {"idle", "loop", "done"})
    /\ <>(pc = "done" /\ returned = Ops /\ retList.kind = "list")

C16_Witness ==
    /\ pc = "done"
    /\ returned = Ops
    /\ word = <<"A", "t", "t">>
    /\ iters = 2
    /\ retCount = 1

(* ------------------------------------------------------------------ *)
(* C17: statelessness                                                  *)
(* ------------------------------------------------------------------ *)
\* C17: the calls keep no state between them: the result for a word is
\* the same whatever calls were made before it or are interleaved with it
\* from another thread on the shared instance, and no call modifies the
\* vowel and consonant tables.
C17_Stateless ==
    /\ [](vowels = VOWELS /\ consonants = CONSONANTS)
    /\ []("list" \in returned => retList = Syllabify(word, None))
    /\ []("count" \in returned => retCount = Count(word))
    /\ []("analyze" \in returned => retInfo = Analyze(word))
    /\ [][otherRet' # otherRet => UNCHANGED <<word, inst, rets, scan>>]_vars

C17_Witness ==
    /\ pc = "done"
    /\ returned = Ops
    /\ otherRet.op = "count"
    /\ otherRet.word = <<"t", "a">>
    /\ word = <<"U+0130", "t", "a">>
    /\ retCount = 2

=============================================================================
